---- MODULE Spec2Model ----
(***************************************************************************)
(* Clothing Shop API (src/main.py, src/schemas.py): the request handlers   *)
(* over the four collections product, order, review and wishlist.          *)
(*                                                                         *)
(* Conventions.  An Optional value is a sequence of length 0 (None) or 1.  *)
(* An id string is a record [kind, v]: kind "hex" is a string ObjectId()   *)
(* parses (v the ObjectId), kind "txt" any other text.  Money is an        *)
(* integer number of thousandths.  Text is a sequence of characters.       *)
(***************************************************************************)
EXTENDS Integers, Sequences, FiniteSets, TLC

VARIABLES db, product, order, review, wishlist, nextId, budget, pc, resp,
          addLog, removed, orderLog

vars == <<db, product, order, review, wishlist, nextId, budget, pc, resp,
          addLog, removed, orderLog>>

\* ------------------------------------------------------------------ bounds

\* Documents the handlers may insert in one behaviour: of concurrent
\* requests, of requests run one after another.
MaxRacedInserts == 2
MaxInserts == 1
\* No collection grows beyond this many documents within these bounds.
MaxDocs == 4

\* ------------------------------------------------------------- basic values

None == <<>>
Some(x) == <<x>>

HexStr(n) == [kind |-> "hex", v |-> n]
TxtStr(n) == [kind |-> "txt", v |-> n]

\* ObjectId(s) raises unless s is a 24-character hex string.
IsValidObjectId(s) == s.kind = "hex"
ObjectId(s) == s.v
\* str(oid)
Str(oid) == HexStr(oid)

\* the workers that run requests concurrently
Workers == {"w1", "w2"}
Emails == {"ann@shop.io", "bob@shop.io"}

\* find_one: the first of the documents matching the filter (matching: the
\* collection's documents that satisfy it, in store order), as an Optional
FindOne(matching) ==
    IF matching = <<>> THEN None ELSE Some(Head(matching))

\* (mutant) delete_many: coll without any of the documents at positions hits
DeleteMany(coll, hits) ==
    LET keep[k \in 0..Len(coll)] ==
            IF k = 0 THEN <<>>
            ELSE IF k \in hits THEN keep[k - 1]
            ELSE Append(keep[k - 1], coll[k])
    IN  keep[Len(coll)]

\* delete_one: coll without the first of the documents matching the filter
\* (hits: the positions in coll of the documents that satisfy it)
DeleteOne(coll, hits) ==
    IF hits = {} THEN coll
    ELSE LET k == CHOOSE i \in hits : \A j \in hits : i <= j
         IN  SubSeq(coll, 1, k - 1) \o SubSeq(coll, k + 1, Len(coll))

\* ----------------------------------------------------------------- products

Product(oid, custom, title, description, category, sizes, colors) ==
    [_id |-> oid, id |-> custom, title |-> title, description |-> description,
     category |-> category, sizes |-> sizes, colors |-> colors]

\* The catalogue the wishlist and review handlers run against: one product
\* known by its ObjectId only, one that also stores a custom "id" field.
SeedProducts ==
    << Product(1, None, <<"T">>, None, "Tops", <<"S", "M">>, <<"black">>),
       Product(2, Some(TxtStr(1)), <<"J">>, None, "Bottoms", <<"M">>, <<"blue">>) >>

\* product_id strings the clients send: the two products' ids, a well-formed
\* ObjectId no product has, and a text no product has as its custom id.
ProductIds == {HexStr(1), TxtStr(1), HexStr(0), TxtStr(0)}

\* db["product"].find_one({"_id": oid}), db["product"].find_one({"id": s})
ById(oid) == FindOne(SelectSeq(product, LAMBDA d : d._id = oid))
ByCustomId(s) == FindOne(SelectSeq(product, LAMBDA d : d.id = Some(s)))

\* The document the two-stage lookup of get_product and get_wishlist reaches:
\* by ObjectId; when ObjectId() or that find_one raises, by the "id" field.
\* fail1, fail2: the first, the second find_one raises a store error.
\* [err |-> the second find_one raised, doc |-> Optional document]
LookupProduct(product_id, fail1, fail2) ==
    IF IsValidObjectId(product_id) /\ ~fail1
    THEN [err |-> FALSE, doc |-> ById(ObjectId(product_id))]
    ELSE IF fail2
         THEN [err |-> TRUE, doc |-> None]
         ELSE [err |-> FALSE, doc |-> ByCustomId(product_id)]

\* (mutant) get_product without its "except HTTPException: raise": the 404
\* is caught by "except Exception" and answered as a 500.
GetProductStatusWrapped(product_id, fail1, fail2) ==
    IF ~db THEN 500
    ELSE LET r == LookupProduct(product_id, fail1, fail2)
         IN  IF r.err \/ r.doc = None THEN 500
             ELSE IF r.doc[1].id # None THEN 500
             ELSE 200

\* The HTTP status get_product answers with (200 stands for the ProductOut).
\* ProductOut(id=d_id, **doc) raises TypeError when doc holds an "id" key.
GetProductStatus(product_id, fail1, fail2) ==
    IF ~db THEN 500
    ELSE LET r == LookupProduct(product_id, fail1, fail2)
         IN  IF r.err THEN 500
             ELSE IF r.doc = None THEN 404
             ELSE IF r.doc[1].id # None THEN 500
             ELSE 200

\* A call get_product made raised: db is None, or a find_one it reached
\* raised a store error.
LookupRaised(product_id, fail1, fail2) ==
    \/ ~db
    \/ IsValidObjectId(product_id) /\ fail1
    \/ (~IsValidObjectId(product_id) \/ fail1) /\ fail2

\* Some stored product matches product_id: by ObjectId if it parses as one,
\* otherwise by the custom id field.
ProductMatches(product_id) ==
    IF IsValidObjectId(product_id)
    THEN ById(ObjectId(product_id)) # None
    ELSE ByCustomId(product_id) # None

\* ---------------------------------------------------------------- responses

NoPid == TxtStr(-1)
NoResp == [op |-> "none", status |-> 0]

\* nextId is the ObjectId the store generates next; none is ever reused.
\* budget is the number of inserts the behaviour has left.
CanInsert == budget > 0

\* create_document(collection, payload): whether the insert raises
InsertFails(fail) == ~db \/ fail

\* ----------------------------------------------------------------- wishlist

WishDoc(oid, email, product_id) ==
    [_id |-> oid, email |-> email, product_id |-> product_id]

\* (mutant) the duplicate lookup filtering on product_id alone
ExistingWishAnyEmail(email, product_id) ==
    FindOne(SelectSeq(wishlist, LAMBDA d : d.product_id = product_id))

\* db["wishlist"].find_one({"email": ..., "product_id": ...})
ExistingWish(email, product_id) ==
    FindOne(SelectSeq(wishlist,
                      LAMBDA d : d.email = email /\ d.product_id = product_id))

\* the positions in the wishlist of the entries of the pair
PairHits(email, product_id) ==
    {i \in 1..Len(wishlist) :
        wishlist[i].email = email /\ wishlist[i].product_id = product_id}

Idle == [at |-> "idle", email |-> "", product_id |-> NoPid]

\* A handler's answer: the HTTP status and the id in the body, with the
\* request it answers.  lookup is the status of the product existence check
\* made in the same step (0: the step made none) and failed whether a store
\* call of the step raised.
AddResp(status, email, product_id, id, lookup, failed) ==
    [op |-> "add_to_wishlist", status |-> status, email |-> email,
     product_id |-> product_id, id |-> id, lookup |-> lookup,
     failed |-> failed]

\* addLog[email, product_id]: the ids the successful adds of the pair
\* returned since the pair was last removed (the last two are kept).
LogAdd(email, product_id, id) ==
    LET old == addLog[email, product_id]
    IN  [addLog EXCEPT ![email, product_id] =
            IF Len(old) < 2 THEN Append(old, id) ELSE <<old[2], id>>]

InFlight(email, product_id) ==
    \E w \in Workers : pc[w].at # "idle" /\ pc[w].email = email
                       /\ pc[w].product_id = product_id

\* add_to_wishlist, first step: the product existence check.  A 404 is
\* re-raised; any other HTTPException of get_product is dropped and the
\* handler goes on.
AddStart(w, email, product_id, fail1, fail2) ==
    /\ pc[w].at = "idle"
    /\ LET st == GetProductStatus(product_id, fail1, fail2)
       IN  IF st = 404
           THEN /\ resp' = AddResp(404, email, product_id, NoPid, st,
                                   LookupRaised(product_id, fail1, fail2))
                /\ pc' = pc
           ELSE /\ resp' = NoResp
                /\ pc' = [pc EXCEPT ![w] = [at |-> "find", email |-> email,
                                            product_id |-> product_id]]
    /\ removed' = removed \ {<<email, product_id>>}
    /\ UNCHANGED <<db, product, order, review, wishlist, nextId, budget, addLog, orderLog>>

\* add_to_wishlist, second step: the duplicate lookup.
AddFind(w, fail) ==
    /\ pc[w].at = "find"
    /\ LET email == pc[w].email
           product_id == pc[w].product_id
           existing == ExistingWish(email, product_id)
       IN  IF ~db \/ fail
           THEN /\ resp' = AddResp(500, email, product_id, NoPid, 0, TRUE)
                /\ pc' = [pc EXCEPT ![w] = Idle]
                /\ addLog' = addLog
           ELSE IF existing # None
           THEN /\ resp' = AddResp(200, email, product_id, Str(existing[1]._id),
                                   0, FALSE)
                /\ pc' = [pc EXCEPT ![w] = Idle]
                /\ addLog' = LogAdd(email, product_id, Str(existing[1]._id))
           ELSE /\ resp' = NoResp
                /\ pc' = [pc EXCEPT ![w].at = "insert"]
                /\ addLog' = addLog
    /\ UNCHANGED <<db, product, order, review, wishlist, nextId, budget, removed, orderLog>>

\* add_to_wishlist, third step: create_document("wishlist", payload).
AddInsert(w, fail) ==
    /\ pc[w].at = "insert"
    /\ CanInsert
    /\ LET email == pc[w].email
           product_id == pc[w].product_id
       IN  IF InsertFails(fail)
           THEN /\ resp' = AddResp(500, email, product_id, NoPid, 0, TRUE)
                /\ UNCHANGED <<wishlist, nextId, budget, addLog>>
           ELSE /\ wishlist' = Append(wishlist, WishDoc(nextId, email, product_id))
                /\ nextId' = nextId + 1 /\ budget' = budget - 1
                /\ resp' = AddResp(200, email, product_id, Str(nextId), 0, FALSE)
                /\ addLog' = LogAdd(email, product_id, Str(nextId))
    /\ pc' = [pc EXCEPT ![w] = Idle]
    /\ UNCHANGED <<db, product, order, review, removed, orderLog>>

\* add_to_wishlist run from its first line to its answer with no other
\* request in between.  fail3, fail4: the duplicate lookup, the insert raises.
AddToWishlist(email, product_id, fail1, fail2, fail3, fail4) ==
    /\ \A w \in Workers : pc[w].at = "idle"
    /\ LET st == GetProductStatus(product_id, fail1, fail2)
           raised == LookupRaised(product_id, fail1, fail2)
           existing == ExistingWish(email, product_id)
       IN  IF st = 404
           THEN /\ resp' = AddResp(404, email, product_id, NoPid, st, raised)
                /\ UNCHANGED <<wishlist, nextId, budget, addLog>>
           ELSE IF ~db \/ fail3
           THEN /\ resp' = AddResp(500, email, product_id, NoPid, st, TRUE)
                /\ UNCHANGED <<wishlist, nextId, budget, addLog>>
           ELSE IF existing # None
           THEN /\ resp' = AddResp(200, email, product_id, Str(existing[1]._id),
                                   st, raised)
                /\ addLog' = LogAdd(email, product_id, Str(existing[1]._id))
                /\ UNCHANGED <<wishlist, nextId, budget>>
           ELSE IF InsertFails(fail4)
           THEN /\ resp' = AddResp(500, email, product_id, NoPid, st, TRUE)
                /\ UNCHANGED <<wishlist, nextId, budget, addLog>>
           ELSE /\ CanInsert
                /\ wishlist' = Append(wishlist, WishDoc(nextId, email, product_id))
                /\ nextId' = nextId + 1 /\ budget' = budget - 1
                /\ resp' = AddResp(200, email, product_id, Str(nextId), st, raised)
                /\ addLog' = LogAdd(email, product_id, Str(nextId))
    /\ removed' = removed \ {<<email, product_id>>}
    /\ UNCHANGED <<db, product, order, review, pc, orderLog>>

\* remove_from_wishlist: delete_one on the pair, answering its deleted_count.
RemoveFromWishlist(email, product_id, fail) ==
    /\ IF ~db \/ fail
       THEN /\ resp' = [op |-> "remove_from_wishlist", status |-> 500,
                        email |-> email, product_id |-> product_id,
                        deleted |-> 0, failed |-> TRUE]
            /\ UNCHANGED <<wishlist, addLog, removed>>
       ELSE LET left == DeleteOne(wishlist, PairHits(email, product_id))
                n == Len(wishlist) - Len(left)
            IN  /\ wishlist' = left
                /\ resp' = [op |-> "remove_from_wishlist", status |-> 200,
                            email |-> email, product_id |-> product_id,
                            deleted |-> n, failed |-> FALSE]
                /\ addLog' = IF n = 1
                             THEN [addLog EXCEPT ![email, product_id] = <<>>]
                             ELSE addLog
                /\ removed' = IF n = 1 /\ ~InFlight(email, product_id)
                              THEN removed \cup {<<email, product_id>>}
                              ELSE removed
    /\ UNCHANGED <<db, product, order, review, nextId, budget, pc, orderLog>>

\* One entry of get_wishlist's answer: the wishlist document joined with
\* its product ({"id": prod_id, **prod}: a stored "id" key wins).
WishOut(w, prod) ==
    [id |-> Str(w._id), product_id |-> w.product_id,
     product |-> IF prod = None THEN None
                 ELSE Some([id |-> IF prod[1].id # None THEN prod[1].id[1]
                                   ELSE Str(prod[1]._id),
                            title |-> prod[1].title])]

\* get_wishlist: every entry of the email, each with its product or None.
\* failFind: the wishlist find raises; k: the entry (by position in the
\* found list, 0 for none) whose first (fail1), second (fail2) product
\* find_one raises.
GetWishlist(email, failFind, k, fail1, fail2) ==
    /\ LET docs == SelectSeq(wishlist, LAMBDA d : d.email = email)
           look(i) == LookupProduct(docs[i].product_id,
                                    i = k /\ fail1, i = k /\ fail2)
       IN  /\ k \in 0..Len(docs)
           /\ k = 0 => ~fail1 /\ ~fail2
           /\ IF ~db \/ failFind \/ \E i \in 1..Len(docs) : look(i).err
              THEN resp' = [op |-> "get_wishlist", status |-> 500,
                            email |-> email, result |-> <<>>]
              ELSE resp' = [op |-> "get_wishlist", status |-> 200,
                            email |-> email,
                            result |-> [i \in 1..Len(docs) |->
                                           WishOut(docs[i], look(i).doc)]]
    /\ UNCHANGED <<db, product, order, review, wishlist, nextId, budget, pc,
                   addLog, removed, orderLog>>

\* ------------------------------------------------------------------ reviews

ReviewDoc(oid, product_id, rating) ==
    [_id |-> oid, product_id |-> product_id, rating |-> rating]

\* create_review: the existence check as in add_to_wishlist, then
\* create_document("review", payload).
CreateReview(product_id, rating, fail1, fail2, fail3) ==
    /\ CanInsert
    /\ LET st == GetProductStatus(product_id, fail1, fail2)
           raised == LookupRaised(product_id, fail1, fail2)
           out(status, id, failed) ==
               [op |-> "create_review", status |-> status, email |-> "",
                product_id |-> product_id, id |-> id, lookup |-> st,
                failed |-> failed]
       IN  IF st = 404
           THEN /\ resp' = out(404, NoPid, raised)
                /\ UNCHANGED <<review, nextId, budget>>
           ELSE IF InsertFails(fail3)
           THEN /\ resp' = out(500, NoPid, TRUE)
                /\ UNCHANGED <<review, nextId, budget>>
           ELSE /\ review' = Append(review, ReviewDoc(nextId, product_id, Some(rating)))
                /\ nextId' = nextId + 1 /\ budget' = budget - 1
                /\ resp' = out(200, Str(nextId), raised)
    /\ UNCHANGED <<db, product, order, wishlist, pc, addLog, removed, orderLog>>

\* ------------------------------------------------- concurrent wishlist spec

InitCommon ==
    /\ db \in BOOLEAN
    /\ order = <<>>
    /\ review = <<>>
    /\ pc = [w \in Workers |-> Idle]
    /\ resp = NoResp
    /\ addLog = [e \in Emails, p \in ProductIds |-> <<>>]
    /\ removed = {}
    /\ orderLog = <<>>

Init ==
    /\ InitCommon
    /\ product = SeedProducts
    /\ wishlist = <<>>
    /\ nextId = Len(SeedProducts) + 1
    /\ budget = MaxRacedInserts

\* product_id strings of the concurrent requests
RacedIds == {HexStr(1), HexStr(0)}

Next ==
    \/ \E w \in Workers, e \in Emails, p \in RacedIds, f1, f2 \in BOOLEAN :
          AddStart(w, e, p, f1, f2)
    \/ \E w \in Workers, f \in BOOLEAN : AddFind(w, f)
    \/ \E w \in Workers, f \in BOOLEAN : AddInsert(w, f)
    \/ \E e \in Emails, p \in RacedIds, f \in BOOLEAN :
          RemoveFromWishlist(e, p, f)
    \/ \E e \in Emails, f, f1, f2 \in BOOLEAN, k \in 0..MaxDocs :
          GetWishlist(e, f, k, f1, f2)

Spec == Init /\ [][Next]_vars

\* ------------------------------------------------- sequential request spec

MinRating == 1
MaxRating == 5

\* The store calls of one request that raise: <<first product find_one,
\* second product find_one, wishlist find_one, insert>>.  No call raises,
\* one does, or the product lookup raises twice (and then the insert too).
Faults ==
    { <<FALSE, FALSE, FALSE, FALSE>>, <<TRUE, FALSE, FALSE, FALSE>>,
      <<FALSE, TRUE, FALSE, FALSE>>, <<FALSE, FALSE, TRUE, FALSE>>,
      <<FALSE, FALSE, FALSE, TRUE>>, <<TRUE, TRUE, FALSE, FALSE>>,
      <<TRUE, TRUE, FALSE, TRUE>> }

\* One request, run from its first line to its answer, on product ids of ids.
SeqStep(ids) ==
    \/ \E e \in Emails, p \in ids, f \in Faults :
          AddToWishlist(e, p, f[1], f[2], f[3], f[4])
    \/ \E e \in Emails, p \in ids, f \in BOOLEAN :
          RemoveFromWishlist(e, p, f)
    \/ \E p \in ids, f \in Faults :
          ~f[3] /\ CreateReview(p, MaxRating, f[1], f[2], f[4])

NextSeq == SeqStep(ProductIds)

InitSeq ==
    /\ InitCommon
    /\ product = SeedProducts
    /\ wishlist = <<>>
    /\ nextId = Len(SeedProducts) + 1
    /\ budget = MaxInserts

SpecSeq == InitSeq /\ [][NextSeq]_vars

\* The wishlist two raced add_to_wishlist requests of one pair leave behind
\* (reachable under Spec), with requests one after another from there on.
RacedWishlist ==
    << WishDoc(3, "ann@shop.io", HexStr(1)), WishDoc(4, "ann@shop.io", HexStr(1)) >>

InitRaced ==
    /\ InitCommon
    /\ product = SeedProducts
    /\ wishlist = RacedWishlist
    /\ nextId = Len(SeedProducts) + Len(RacedWishlist) + 1
    /\ budget = MaxInserts

NextRaced == SeqStep(RacedIds)

SpecRaced == InitRaced /\ [][NextRaced]_vars

\* ------------------------------------------------------------------- orders

\* Stored orders in one behaviour.
MaxOrders == 2

\* round(x, 2) of an amount in thousandths: the nearest hundredth, a tie
\* (an exact ...5 thousandths) going to the even hundredth.  The amounts of
\* OrderPayloads and their sums are never half-way between two hundredths,
\* where the float's own error would decide.
Round2(x) ==
    LET q == x \div 10
        r == x % 10
    IN  IF r < 5 THEN 10 * q
        ELSE IF r > 5 THEN 10 * (q + 1)
        ELSE IF q % 2 = 0 THEN 10 * q
        ELSE 10 * (q + 1)

RECURSIVE SumItems(_)
\* sum([item.price * item.quantity for item in items])
SumItems(items) ==
    IF items = <<>> THEN 0
    ELSE items[1].price * items[1].quantity + SumItems(Tail(items))

OrderItem(product_id, price, quantity) ==
    [product_id |-> product_id, price |-> price, quantity |-> quantity]

\* (mutant) create_order trusting the client's total
OrderDataClientTotal(payload) ==
    [payload EXCEPT !.subtotal = Round2(SumItems(payload.items)),
                    !.shipping = Round2(payload.shipping)]

\* order_data of create_order: the payload's dump with subtotal, shipping
\* and total replaced by the recomputed, rounded amounts.
OrderData(payload) ==
    LET subtotal == SumItems(payload.items)
        shipping == payload.shipping
        total == subtotal + shipping
    IN  [payload EXCEPT !.subtotal = Round2(subtotal),
                        !.shipping = Round2(shipping),
                        !.total = Round2(total)]

\* create_order; orderLog[i] is the payload order[i] was stored for.
CreateOrder(payload, fail) ==
    /\ Len(order) < MaxOrders
    /\ IF InsertFails(fail)
       THEN /\ resp' = [op |-> "create_order", status |-> 500, id |-> NoPid]
            /\ UNCHANGED <<order, orderLog, nextId>>
       ELSE /\ order' = Append(order, [doc |-> OrderData(payload), _id |-> nextId])
            /\ orderLog' = Append(orderLog, payload)
            /\ nextId' = nextId + 1
            /\ resp' = [op |-> "create_order", status |-> 200, id |-> Str(nextId)]
    /\ UNCHANGED <<db, product, review, wishlist, budget, pc, addLog, removed>>

\* Order payloads the schema accepts (amounts in thousandths): the item
\* lists, shipping amounts and client-side totals of the requests.
ItemLists ==
    { << OrderItem(HexStr(1), 10000, 2), OrderItem(HexStr(2), 5000, 1) >>,
      << OrderItem(HexStr(1), 10004, 1) >>,
      << OrderItem(HexStr(2), 3336, 3) >> }
Shippings == {3000, 5004}
ClientTotals == { <<25000, 28000>>, <<0, 10>> }

OrderPayloads ==
    { [email |-> e, items |-> it, subtotal |-> ct[1], shipping |-> sh,
       total |-> ct[2], note |-> None] :
         e \in Emails, it \in ItemLists, sh \in Shippings, ct \in ClientTotals }

InitOrder ==
    /\ InitCommon
    /\ product = SeedProducts
    /\ wishlist = <<>>
    /\ nextId = Len(SeedProducts) + 1
    /\ budget = 0

NextOrder == \E payload \in OrderPayloads, f \in BOOLEAN : CreateOrder(payload, f)

SpecOrder == InitOrder /\ [][NextOrder]_vars

\* ---------------------------------------------------------- product listing

\* limit= of list_products, of get_product_rating
ListLimit == 100
RatingLimit == 1000

\* get_documents(collection, filter, limit): the first limit documents of
\* the collection, in store order, that satisfy the filter.
\* (matching: the collection's documents that satisfy it, in store order)
GetDocuments(matching, limit) ==
    IF Len(matching) <= limit THEN matching ELSE SubSeq(matching, 1, limit)

Elems(s) == {s[i] : i \in 1..Len(s)}

\* the lower-case form of a character
Lower(c) ==
    CASE c = "S" -> "s"
      [] c = "H" -> "h"
      [] c = "A" -> "a"
      [] OTHER -> c

\* re.compile(re.escape(q), re.IGNORECASE) finds a match in text
RegexMatches(q, text) ==
    \E i \in 0..(Len(text) - Len(q)) :
        \A j \in 1..Len(q) : Lower(text[i + j]) = Lower(q[j])

\* "if category:" and the like: the parameter is given and not empty
Truthy(param, empty) == param # None /\ param[1] # empty

\* Document d satisfies filter_dict as list_products builds it: a clause per
\* truthy parameter, all of them to hold, q as an $or over title and
\* description.
MatchesFilter(d, category, size, color, q) ==
    /\ Truthy(category, "") => d.category = category[1]
    /\ Truthy(size, "") => size[1] \in Elems(d.sizes)
    /\ Truthy(color, "") => color[1] \in Elems(d.colors)
    /\ Truthy(q, <<>>) =>
          \/ RegexMatches(q[1], d.title)
          \/ d.description # None /\ RegexMatches(q[1], d.description[1])

\* ProductOut(id=d_id, **d) after d.pop("_id")
ProductOut(d) ==
    [id |-> Str(d._id), title |-> d.title, description |-> d.description,
     category |-> d.category, sizes |-> d.sizes, colors |-> d.colors]

\* The loop of list_products over the documents found: [status, result].
\* ProductOut(id=d_id, **d) raises TypeError on a document that holds an
\* "id" key of its own, and the handler answers 500.
ProductOuts(docs) ==
    IF \E i \in 1..Len(docs) : docs[i].id # None
    THEN [status |-> 500, result |-> <<>>]
    ELSE [status |-> 200, result |-> [i \in 1..Len(docs) |-> ProductOut(docs[i])]]

\* list_products
ListProducts(category, size, color, q, fail) ==
    /\ LET out(status, failed, result) ==
               [op |-> "list_products", status |-> status, failed |-> failed,
                category |-> category, size |-> size, color |-> color, q |-> q,
                result |-> result]
           answer(r) == out(r.status, FALSE, r.result)
       IN  IF ~db \/ fail
           THEN resp' = out(500, TRUE, <<>>)
           ELSE resp' = answer(ProductOuts(GetDocuments(
                            SelectSeq(product,
                                LAMBDA d : MatchesFilter(d, category, size, color, q)),
                            ListLimit)))
    /\ UNCHANGED <<db, product, order, review, wishlist, nextId, budget, pc,
                   addLog, removed, orderLog>>

\* create_product: the payload stored as validated (the Product schema has
\* no "id" field, so none is stored).
CreateProduct(payload, fail) ==
    /\ CanInsert
    /\ IF InsertFails(fail)
       THEN /\ resp' = [op |-> "create_product", status |-> 500, id |-> NoPid]
            /\ UNCHANGED <<product, nextId, budget>>
       ELSE /\ product' = Append(product,
                    Product(nextId, None, payload.title, payload.description,
                            payload.category, payload.sizes, payload.colors))
            /\ nextId' = nextId + 1 /\ budget' = budget - 1
            /\ resp' = [op |-> "create_product", status |-> 200, id |-> Str(nextId)]
    /\ UNCHANGED <<db, order, review, wishlist, pc, addLog, removed, orderLog>>

ProductPayloads ==
    { [title |-> <<"S", "h">>, description |-> None, category |-> "Tops",
       sizes |-> <<"S", "M">>, colors |-> <<"black">>],
      [title |-> <<"h", "a">>, description |-> Some(<<"s", "H">>),
       category |-> "tops", sizes |-> <<"M">>, colors |-> <<"blue", "black">>],
      [title |-> <<"a">>, description |-> Some(<<>>), category |-> "Tops",
       sizes |-> <<"L">>, colors |-> <<"blue">>] }

\* n products created one after another from the first payload
BulkProducts(n) ==
    [i \in 1..n |-> Product(i, None, <<"S", "h">>, None, "Tops",
                            <<"S", "M">>, <<"black">>)]

Categories == {None, Some(""), Some("Tops")}
Sizes == {None, Some("M")}
Colors == {None, Some("blue")}
Queries == {None, Some(<<>>), Some(<<"s", "h">>), Some(<<"A">>)}

InitList ==
    /\ InitCommon
    /\ product \in {<<>>, SeedProducts, BulkProducts(ListLimit)}
    /\ wishlist = <<>>
    /\ nextId = Len(product) + 1
    /\ budget = MaxInserts

NextList ==
    \/ \E payload \in ProductPayloads, f \in BOOLEAN : CreateProduct(payload, f)
    \/ \E c \in Categories, sz \in Sizes, co \in Colors, q \in Queries,
          f \in BOOLEAN : ListProducts(c, sz, co, q, f)

SpecList == InitList /\ [][NextList]_vars

\* ------------------------------------------------------------------ ratings

RECURSIVE SumRange(_, _, _)
\* ratings[lo] + ... + ratings[hi], added up by halves
SumRange(ratings, lo, hi) ==
    IF lo > hi THEN 0
    ELSE IF lo = hi THEN ratings[lo]
    ELSE SumRange(ratings, lo, (lo + hi) \div 2)
         + SumRange(ratings, (lo + hi) \div 2 + 1, hi)

\* sum(ratings)
SumOf(ratings) == SumRange(ratings, 1, Len(ratings))

\* (mutant) the average cut to 2 decimals instead of rounded
TruncatedAverage(sum, count) == {(100 * sum) \div count}

\* round(sum / count, 2) in hundredths, count > 0.  A quotient half-way
\* between two hundredths goes to the even one when it is a binary fraction
\* (an odd number of eighths: the float holds it exactly); otherwise the
\* float nearest the quotient lies on one side or the other of the half.
RoundedAverage(sum, count) ==
    LET q == (100 * sum) \div count
        r == (100 * sum) % count
    IN  IF 2 * r < count THEN {q}
        ELSE IF 2 * r > count THEN {q + 1}
        ELSE IF (8 * sum) % count = 0
        THEN {IF q % 2 = 0 THEN q ELSE q + 1}
        ELSE {q, q + 1}

\* ratings = [int(d.get("rating", 0)) for d in docs if d.get("rating") is not None]
RatingsOf(docs) ==
    LET rated == SelectSeq(docs, LAMBDA d : d.rating # None)
    IN  [i \in 1..Len(rated) |-> rated[i].rating[1]]

\* the averages get_product_rating may answer for ratings (0 for none)
Averages(ratings) ==
    IF Len(ratings) = 0 THEN {0}
    ELSE RoundedAverage(SumOf(ratings), Len(ratings))

\* get_product_rating
GetProductRating(product_id, fail) ==
    /\ LET out(status, failed, avg, count) ==
               [op |-> "get_product_rating", status |-> status, failed |-> failed,
                product_id |-> product_id, average |-> avg, count |-> count]
           answer(ratings) ==
               \E avg \in Averages(ratings) :
                   resp' = out(200, FALSE, avg, Len(ratings))
       IN  IF ~db \/ fail
           THEN resp' = out(500, TRUE, 0, 0)
           ELSE answer(RatingsOf(GetDocuments(
                           SelectSeq(review, LAMBDA d : d.product_id = product_id),
                           RatingLimit)))
    /\ UNCHANGED <<db, product, order, review, wishlist, nextId, budget, pc,
                   addLog, removed, orderLog>>

\* n reviews of the first product created one after another: the first hi
\* rated base + 1, the others base
BulkReviews(n, base, hi) ==
    [i \in 1..n |-> ReviewDoc(Len(SeedProducts) + i, HexStr(1),
                              Some(IF i <= hi THEN base + 1 ELSE base))]

InitRating ==
    /\ db \in BOOLEAN
    /\ order = <<>>
    /\ review \in {<<>>, BulkReviews(RatingLimit - 1, 3, 127),
                   BulkReviews(RatingLimit - 1, 2, 676),
                   BulkReviews(RatingLimit, 3, 127)}
    /\ pc = [w \in Workers |-> Idle]
    /\ resp = NoResp
    /\ addLog = [e \in Emails, p \in ProductIds |-> <<>>]
    /\ removed = {}
    /\ orderLog = <<>>
    /\ product = SeedProducts
    /\ wishlist = <<>>
    /\ nextId = Len(SeedProducts) + Len(review) + 1
    /\ budget = MaxInserts

\* ratings of the reviews created: the lowest and the highest the schema accepts
Ratings == {MinRating, MaxRating}

NextRating ==
    \/ \E p \in ProductIds, rating \in Ratings, f \in Faults :
          ~f[3] /\ CreateReview(p, rating, f[1], f[2], f[4])
    \/ \E p \in ProductIds, f \in BOOLEAN : GetProductRating(p, f)

SpecRating == InitRating /\ [][NextRating]_vars

\* ================================================================== claims

SamePair(s, e, p) == SelectSeq(s, LAMBDA d : d.email = e /\ d.product_id = p)
OtherPairs(s, e, p) == SelectSeq(s, LAMBDA d : ~(d.email = e /\ d.product_id = p))
IsCreate(r) == r.op \in {"create_review", "add_to_wishlist"}

\* C1: requests running one after another, the successful add_to_wishlist
\* calls of a pair since the pair was last removed all returned the same
\* identifier, and the store holds exactly one entry of the pair, the one
\* with that identifier.
C1_AddIdempotent ==
    \A e \in Emails, p \in ProductIds :
        LET log == addLog[e, p]
        IN  Len(log) >= 1 =>
              /\ \A i \in 1..Len(log) : log[i] = log[1]
              /\ Len(SamePair(wishlist, e, p)) = 1
              /\ Str(SamePair(wishlist, e, p)[1]._id) = log[1]

\* a pair of an existing product added twice with no removal in between
C1_Witness ==
    \E e \in Emails, p \in ProductIds :
        Len(addLog[e, p]) = 2 /\ ProductMatches(p)

\* C2: the wishlist holds at most one entry per (email, product_id) pair,
\* also when the lookups and inserts of concurrent adds interleave.
C2_UniquePairs ==
    \A e \in Emails, p \in ProductIds : Len(SamePair(wishlist, e, p)) <= 1

\* C3: a create_review or add_to_wishlist request whose store calls all
\* worked and whose product_id no product matches is answered 404 and
\* leaves the review and wishlist collections as they were.
C3_MissingProduct404 ==
    [][ (IsCreate(resp') /\ ~resp'.failed /\ ~ProductMatches(resp'.product_id))
          => (resp'.status = 404 /\ review' = review /\ wishlist' = wishlist) ]_vars

\* a 404 answered by add_to_wishlist with a review already stored
C3_Witness ==
    /\ resp.op = "add_to_wishlist" /\ resp.status = 404 /\ ~resp.failed
    /\ ~ProductMatches(resp.product_id)
    /\ Len(review) > 0

\* C6: remove_from_wishlist deletes min(1, matching entries) entries of the
\* pair and answers 200 with that number as deleted; entries of other pairs
\* and the product, order and review collections stay as they were; with no
\* match it answers deleted = 0 and nothing changes.  (Only a raising
\* delete_one is answered 500, and then nothing changes either.)
C6_RemoveDeletesOne ==
    [][ resp'.op = "remove_from_wishlist" =>
          LET e == resp'.email
              p == resp'.product_id
              n == Len(SamePair(wishlist, e, p))
              m == IF n >= 1 THEN 1 ELSE 0
          IN  /\ product' = product /\ order' = order /\ review' = review
              /\ OtherPairs(wishlist', e, p) = OtherPairs(wishlist, e, p)
              /\ IF resp'.failed
                 THEN resp'.status = 500 /\ wishlist' = wishlist
                 ELSE /\ resp'.status = 200
                      /\ resp'.deleted = m
                      /\ Len(SamePair(wishlist', e, p)) = n - m
                      /\ Len(wishlist') = Len(wishlist) - m
                      /\ (n = 0 => wishlist' = wishlist) ]_vars

\* a removal that answered deleted = 1 and left a second entry of the pair
\* and an entry of another pair in place
C6_Witness ==
    /\ resp.op = "remove_from_wishlist" /\ resp.status = 200 /\ resp.deleted = 1
    /\ Len(SamePair(wishlist, resp.email, resp.product_id)) = 1
    /\ Len(OtherPairs(wishlist, resp.email, resp.product_id)) >= 1

\* C9: a create_review or add_to_wishlist request whose product existence
\* check failed with a 500 is answered 500 and persists nothing.
C9_LookupFailureIs500 ==
    [][ (IsCreate(resp') /\ resp'.lookup = 500)
          => (resp'.status = 500 /\ review' = review /\ wishlist' = wishlist) ]_vars

\* C10: once remove_from_wishlist(email, product_id) answered deleted = 1
\* with no add of the pair under way, and no add of the pair has started
\* since, get_wishlist(email) returns no entry of that product_id.
C10_RemovalTakesEffect ==
    (resp.op = "get_wishlist" /\ resp.status = 200) =>
        \A p \in ProductIds :
            <<resp.email, p>> \in removed =>
                \A i \in 1..Len(resp.result) : resp.result[i].product_id # p

Amounts(doc) == <<doc.subtotal, doc.shipping, doc.total>>

\* C4: every stored order has subtotal = round2(sum of price * quantity)
\* and total = round2(stored subtotal + stored shipping).
C4_StoredAmountsConsistent ==
    \A i \in 1..Len(order) :
        /\ order[i].doc.subtotal = Round2(SumItems(order[i].doc.items))
        /\ order[i].doc.total = Round2(order[i].doc.subtotal + order[i].doc.shipping)

\* C5: two orders stored for payloads that agree on email, items, shipping
\* and note hold the same subtotal, shipping and total, whatever subtotal
\* and total the clients sent.
C5_ClientTotalsIgnored ==
    \A i, j \in 1..Len(order) :
        ( /\ orderLog[i].email = orderLog[j].email
          /\ orderLog[i].items = orderLog[j].items
          /\ orderLog[i].shipping = orderLog[j].shipping
          /\ orderLog[i].note = orderLog[j].note )
        => Amounts(order[i].doc) = Amounts(order[j].doc)

\* two stored orders whose payloads differ in the client totals only
C5_Witness ==
    \E i, j \in 1..Len(order) :
        /\ orderLog[i].email = orderLog[j].email
        /\ orderLog[i].items = orderLog[j].items
        /\ orderLog[i].shipping = orderLog[j].shipping
        /\ orderLog[i].subtotal # orderLog[j].subtotal
        /\ orderLog[i].total # orderLog[j].total

Given(param, empty) == param # None /\ param[1] # empty
ContainsNoCase(q, text) ==
    \E i \in 0..(Len(text) - Len(q)) :
        \A j \in 1..Len(q) : Lower(text[i + j]) = Lower(q[j])
\* stored product d satisfies every filter given in the answered request r
Satisfies(d, r) ==
    /\ Given(r.category, "") => d.category = r.category[1]
    /\ Given(r.size, "") => \E i \in 1..Len(d.sizes) : d.sizes[i] = r.size[1]
    /\ Given(r.color, "") => \E i \in 1..Len(d.colors) : d.colors[i] = r.color[1]
    /\ Given(r.q, <<>>) =>
          \/ ContainsNoCase(r.q[1], d.title)
          \/ d.description # None /\ ContainsNoCase(r.q[1], d.description[1])

\* the stored products satisfying the filters given in r, by position
Matching(r) == {i \in 1..Len(product) : Satisfies(product[i], r)}
\* result lists products of the set expected only, all of them when they
\* are at most 100, and nothing when there are none
ListedOf(result, expected) ==
    /\ \A k \in 1..Len(result) : result[k] \in expected
    /\ Cardinality(expected) <= ListLimit =>
          \A e \in expected : \E k \in 1..Len(result) : result[k] = e
    /\ expected = {} => result = <<>>

\* C7: list_products, its store call working, answers 200 with at most 100
\* products, each satisfying every filter given (a filter counts as given
\* when it is not empty); every stored product satisfying them all is in
\* the answer when at most 100 do; the answer is empty when none does.
C7_ListFiltersAnd ==
    (resp.op = "list_products" /\ ~resp.failed) =>
        /\ resp.status = 200
        /\ Len(resp.result) <= ListLimit
        /\ ListedOf(resp.result, {ProductOut(product[i]) : i \in Matching(resp)})

\* the ratings of the first RatingLimit stored reviews of product_id
FirstRatings(product_id) ==
    LET mine == SelectSeq(review, LAMBDA d : d.product_id = product_id /\ d.rating # None)
    IN  [i \in 1..(IF Len(mine) <= RatingLimit THEN Len(mine) ELSE RatingLimit)
            |-> mine[i].rating[1]]
\* avg (in hundredths) is sum / count rounded to 2 decimals, within 1..5
IsRoundedMean(avg, sum, count) ==
    /\ 2 * (100 * sum - avg * count) <= count
    /\ 2 * (avg * count - 100 * sum) <= count
    /\ 100 * MinRating <= avg /\ avg <= 100 * MaxRating
RatingAnswerOk(r, ratings) ==
    /\ r.status = 200
    /\ r.count = Len(ratings)
    /\ IF Len(ratings) = 0 THEN r.average = 0
       ELSE IsRoundedMean(r.average, SumOf(ratings), Len(ratings))

\* C8: get_product_rating, its store call working, answers 200 with count
\* the number of stored reviews of the product (the first 1000 of them) and
\* average their mean rating rounded to 2 decimals, between 1 and 5 when
\* count > 0; average 0 and count 0 when the product has no review.
C8_RatingIsMean ==
    (resp.op = "get_product_rating" /\ ~resp.failed) =>
        RatingAnswerOk(resp, FirstRatings(resp.product_id))

\* a rating answered for a product with more stored reviews than the fetch
\* limit, with an average that is no whole number
C8_Witness ==
    /\ resp.op = "get_product_rating" /\ resp.status = 200
    /\ resp.count = RatingLimit
    /\ Len(SelectSeq(review, LAMBDA d : d.product_id = resp.product_id)) > RatingLimit
    /\ resp.average % 100 # 0

====
